---- MODULE Spec2Model ----
(***************************************************************************)
(* A model of cjemu: the emulation scheduler (src/src/emu.rs) that owns a  *)
(* virtual machine behind a reader/writer lock and runs one worker thread  *)
(* consuming a FIFO channel of Exit / Tick / Cycle events, and the memory  *)
(* banks (src/cjemu-runtime/src/ram.rs, rom.rs), the arithmetic/logic unit *)
(* (alu.rs) and the virtual machine (virtual_machine.rs) of the runtime,   *)
(* each used on its own.                                                   *)
(*                                                                         *)
(* Time is counted in milliseconds.  SystemTime is the wall clock: it is   *)
(* not monotonic, so a reading may be later than, equal to or earlier than *)
(* the reading before it.  The clock is looked at only where the code      *)
(* calls SystemTime::now().                                                *)
(***************************************************************************)
EXTENDS Integers, Sequences, FiniteSets, TLC

\* ---------------------------------------------------------------- bounds

\* Controller calls (tick, cycle, exit, drop) made in one behaviour.
MaxOps == 2
\* Largest `ticks` argument of cycle().
MaxTicks == 2
\* Clock readings in one behaviour that differ from the reading before.
MaxClockEvents == 2
\* Largest capacity of a memory bank, and one less than the largest address tried.
MaxSize == 2
\* perform_tick calls made directly on one machine.
MaxVmTicks == 2

\* ------------------------------------------------------ program constants

\* emu.rs:77 computes seconds; the model counts milliseconds.
MsPerSec == 1000
\* emu.rs:101: the throughput report is due when more than 1.0 s have passed.
PrintIntervalMs == 1000
\* emu.rs:124: the worker sleeps when the interval exceeds 0.010 s.
SleepThresholdMs == 10
\* alu.rs:10, u16::MAX.
U16Max == 65535
\* lib.rs:10, Opcode::LdA16: the first byte of "load the next two bytes into a".
OpLdA16 == 1
\* lib.rs:17, Opcode::StB8: the largest byte that is an opcode.
OpStB8 == 8

\* ------------------------------------------------------------ input sets

\* ticks_per_second values the controller passes (f64): a negative rate, zero,
\* 50/s (20 ms interval, above the sleep threshold), 1000/s (1 ms interval).
Rates == {0 - 1000, 0, 50, 1000}
\* How far a clock reading lies after the reading before it (ms).
ClockSteps == {1, 1000}
\* How far a clock reading lies before the reading before it (ms).
ClockBackSteps == {1}
\* Byte values stored in memory banks (u8).
ByteVals == {0, 7, 255}
\* Addresses tried on a bank (u16): inside, at, and beyond the capacity.
Addrs == 0 .. (MaxSize + 1)
\* Program images that fault at the first fetch: a byte that is no opcode.
FaultImages == {<<9>>}
\* ALU operands (u16): around zero, around the sign bit and around u16::MAX.
U16Samples == {0, 1, 2, 42, 32767, 32768, 65534, 65535}
\* The ALU operations whose body is todo!() (alu.rs:23-57, 63-93).
TodoOps == {"add16_carry", "sub16", "sub16_borrow", "neg16", "inc16", "pass16",
            "and16", "or16", "xor16", "shift16l", "shift16r", "ushift16l",
            "ushift16r", "rot16l", "rot16r", "rot16l_carry", "rot16r_carry"}
\* Program images put into ROM: lda16 0x002A, lda16 0x0100, a lone nop, and a
\* byte that is no opcode.
RomImages == {<<OpLdA16, 42, 0>>, <<OpLdA16, 0, 1>>, <<0>>, <<9>>}

VARIABLES
    \* EmulationHandler (controller side)
    cpc,            \* where the controller is: idle, joining, dropped, panicked
    has_exit,       \* EmulationHandler.has_exit
    join_handle,    \* EmulationHandler.join_handle: "Some" or "None"
    ops,            \* number of controller calls made so far
    last_op,        \* the last controller call: new, tick, cycle, exit, drop
    \* the mpsc channel
    queue,          \* events sent and not yet received
    submitted,      \* history: every event sent successfully, in order
    \* the worker thread of start_loop
    wpc,            \* where the worker is
    cur,            \* the event the worker received last
    started,        \* history: every event the worker received, in order
    cur_calls,      \* perform_tick() calls made for `cur`
    past_ticks, last_tick_time, last_print_time, last_print_ticks, secs_per_tick,
    cycle_start,    \* the reading of emu.rs:74 the running Cycle began with
    \* Arc<RwLock<CJEmuVirtualMachine>>
    vm,             \* the virtual machine
    rwlock,         \* unlocked, write, read, poisoned
    calls,          \* history: perform_tick() calls made so far
    \* SystemTime
    now,            \* the last reading of the wall clock (ms)
    clock_events,   \* number of readings that differed from the one before
    clock_steady,   \* whether the wall clock is never set back in this run
    \* standalone memory banks
    ram, rom,
    mem_last,       \* the last bank operation and what it returned
    mem_prev,       \* the bank operation before it
    \* CJEmuAlu used on its own
    alu_a, alu_b,   \* the operands (u16)
    alu_op,         \* the last operation called
    alu_out,        \* what it returned, or that it panicked
    \* CJEmuVirtualMachine used on its own
    vm_last,        \* the last call on the machine and what it returned
    vm_ticks        \* perform_tick calls made on the machine so far

ctlvars == <<cpc, has_exit, join_handle, ops, last_op>>
chanvars == <<queue, submitted>>
loopvars == <<past_ticks, last_tick_time, last_print_time, last_print_ticks, secs_per_tick,
              cycle_start>>
wvars == <<wpc, cur, started, cur_calls, loopvars>>
vmvars == <<vm, rwlock, calls>>
clockvars == <<now, clock_events, clock_steady>>
memvars == <<ram, rom, mem_last, mem_prev>>
schedvars == <<ctlvars, chanvars, wvars, vmvars, clockvars>>
aluvars == <<alu_a, alu_b, alu_op, alu_out>>
unitvars == <<aluvars, vm_last, vm_ticks>>
vars == <<schedvars, memvars, unitvars>>

\* ------------------------------------------------------------ Option<T>

None == [some |-> FALSE]
Some(v) == [some |-> TRUE, val |-> v]

\* ---------------------------------------------------------- memory banks

\* Ram::new / Rom::new: max_size = size, data = vec![default; size].
RamNew(default, size) == [max_size |-> size, data |-> [i \in 1 .. size |-> default]]
RomNew(default, size) == [max_size |-> size, data |-> [i \in 1 .. size |-> default]]

\* ReadableMemory::size
Size(mem) == mem.max_size

\* ReadableMemory::byte for Ram and Rom: None when address >= max_size.
Byte(mem, address) ==
    IF address >= mem.max_size THEN None ELSE Some(mem.data[address + 1])

\* Mutants of Ram::set_byte.
\* The bounds check lets address == max_size through (">" for ">=").
SetByteOffByOne(mem, address, value) ==
    IF address > mem.max_size
    THEN [ret |-> None, mem |-> mem]
    ELSE [ret |-> Some("unit"),
          mem |-> IF address < mem.max_size
                  THEN [mem EXCEPT !.data[address + 1] = value]
                  ELSE mem]
\* An out-of-bounds write wraps around into the bank before failing.
SetByteWrap(mem, address, value) ==
    IF address >= mem.max_size
    THEN [ret |-> None,
          mem |-> IF mem.max_size > 0
                  THEN [mem EXCEPT !.data[(address % mem.max_size) + 1] = value]
                  ELSE mem]
    ELSE [ret |-> Some("unit"), mem |-> [mem EXCEPT !.data[address + 1] = value]]

\* WritableMemory::set_byte for Ram: the returned Option and the bank afterwards.
SetByte(mem, address, value) ==
    IF address >= mem.max_size
    THEN [ret |-> None, mem |-> mem]
    ELSE [ret |-> Some("unit"), mem |-> [mem EXCEPT !.data[address + 1] = value]]

\* ------------------------------------------------------- virtual machine

\* AluOutputs::default() (derive Default).
AluDefault ==
    [value |-> 0, carry_out |-> FALSE, zero |-> FALSE, negative |-> FALSE,
     overflow |-> FALSE, parity |-> FALSE]

\* CJEmuVirtualMachine::new
VmNew(rom_size, ram_size) ==
    [last_alu |-> AluDefault, reg_a |-> 0, reg_b |-> 0,
     rom |-> RomNew(0, rom_size), ram |-> RamNew(0, ram_size)]

\* CJEmuVirtualMachine::perform_tick: returns Ok(()) and changes nothing.
PerformTick(m) == [ok |-> TRUE, vm |-> m]

\* ------------------------------------------------- arithmetic/logic unit

\* What a call of an ALU operation comes to: it returns AluOutputs or panics.
Returned(out) == [kind |-> "ok", out |-> out]
\* todo!() panics with "not yet implemented".
Todo == [kind |-> "panic"]

\* Mutants of CJEmuAlu::add16.
\* The wrapped value forgets to take u16::MAX - a off b.
Add16Asym(a, b) ==
    LET sum == a + b
        value == IF sum <= U16Max THEN sum ELSE b
    IN  [value |-> value, carry_out |-> FALSE, zero |-> value = 0,
         negative |-> FALSE, overflow |-> sum > U16Max, parity |-> FALSE]
\* The zero flag is taken from the mathematical sum modulo 2^16, not from value.
Add16ZeroOfSum(a, b) ==
    LET sum == a + b
        value == IF sum <= U16Max THEN sum ELSE b - (U16Max - a)
    IN  [value |-> value, carry_out |-> FALSE, zero |-> (sum % (U16Max + 1)) = 0,
         negative |-> FALSE, overflow |-> sum > U16Max, parity |-> FALSE]

\* CJEmuAlu::add16 (alu.rs:6-21): checked_add gives the sum when it fits in a
\* u16; otherwise the value is b - (u16::MAX - a) and overflow is set.
\* carry_out, negative and parity are the literal false.
Add16(a, b) ==
    LET sum == a + b
        value == IF sum <= U16Max THEN sum ELSE b - (U16Max - a)
    IN  [value |-> value, carry_out |-> FALSE, zero |-> value = 0,
         negative |-> FALSE, overflow |-> sum > U16Max, parity |-> FALSE]

\* CJEmuAlu::complement (alu.rs:59-61): todo!().
Complement(a) == Todo

\* ------------------------------------------------------ program images

\* Loading a raw byte image into ROM from address 0 before the first tick.
\* The design requires this of the core (collaborator-facing interface); the
\* sources have no operation that writes to a Rom, so this follows the design.
LoadRom(m, image) ==
    [m EXCEPT !.rom.data = [i \in 1 .. m.rom.max_size |->
                              IF i <= Len(image) THEN image[i] ELSE m.rom.data[i]]]

\* -------------------------------------------------------------- events

EvExit == [type |-> "Exit"]
EvTick == [type |-> "Tick"]
EvCycle(ticks, ticks_per_second) ==
    [type |-> "Cycle", ticks |-> ticks, ticks_per_second |-> ticks_per_second]
NoEvent == [type |-> "None"]

\* The perform_tick() calls an event asks for: one per Tick, `ticks` per Cycle.
TicksOf(ev) ==
    IF ev.type = "Tick" THEN 1 ELSE IF ev.type = "Cycle" THEN ev.ticks ELSE 0

\* The calls asked for by a sequence of events.
RECURSIVE Requested(_)
Requested(evs) ==
    IF evs = <<>> THEN 0 ELSE TicksOf(Head(evs)) + Requested(Tail(evs))

\* The interval between ticks, emu.rs:77: secs_per_tick = 1.0 / ticks_per_second.
\* In f64, 1.0 / 0.0 is +infinity and a negative rate gives a negative interval.
SecsPerTick(ticks_per_second) ==
    IF ticks_per_second = 0 THEN [inf |-> TRUE, ms |-> 0]
    ELSE IF ticks_per_second < 0
         THEN [inf |-> FALSE, ms |-> 0 - (MsPerSec \div (0 - ticks_per_second))]
         ELSE [inf |-> FALSE, ms |-> MsPerSec \div ticks_per_second]

NoInterval == [inf |-> FALSE, ms |-> 0]

\* Mutant of the comparison of emu.rs:109: a tick is due as soon as the elapsed
\* time equals the interval (">=" for ">").
TickIsDueAtInterval(elapsed, spt) == (~spt.inf) /\ elapsed >= spt.ms

\* emu.rs:109: elapsed_time_secs > secs_per_tick.
TickIsDue(elapsed, spt) == (~spt.inf) /\ elapsed > spt.ms

\* emu.rs:124: secs_per_tick > 0.010.
ShouldSleep(spt) == spt.inf \/ spt.ms > SleepThresholdMs

\* Mutants of the loop condition of emu.rs:79.
\* One tick too many ("<=" for "<").
CycleContinueOffByOne(past, ticks) == past <= ticks
\* The cycle gives up as soon as another event is waiting in the channel.
CycleContinuePreempt(past, ticks) == past < ticks /\ queue = <<>>

\* emu.rs:79: while past_ticks < ticks.
CycleContinue(past, ticks) == past < ticks

\* Mutant of recv: the newest event is taken first.
DequeueNewest(q) == [ev |-> q[Len(q)], rest |-> SubSeq(q, 1, Len(q) - 1)]

\* mpsc::Receiver::recv on a non-empty channel: the oldest event.
Dequeue(q) == [ev |-> Head(q), rest |-> Tail(q)]

\* The receiver lives in the worker's closure and is dropped when the thread ends.
ReceiverAlive == wpc \notin {"done", "panicked"}

\* The sender lives in the handler and is dropped with it.
SendersDropped == cpc \in {"dropped", "panicked"}

\* ---------------------------------------------------------- controller

\* Mutant of tick(): the tick is performed by the caller, not sent to the worker.
tick_sync ==
    /\ cpc = "idle" /\ ops < MaxOps
    /\ ops' = ops + 1 /\ last_op' = "tick"
    /\ vm' = PerformTick(vm).vm /\ calls' = calls + 1
    /\ UNCHANGED <<cpc, has_exit, join_handle, chanvars, wvars, rwlock, clockvars, memvars, unitvars>>

\* Mutant of tick(): the result of the send is ignored.
tick_lenient ==
    /\ cpc = "idle" /\ ops < MaxOps
    /\ ops' = ops + 1 /\ last_op' = "tick"
    /\ IF ReceiverAlive
       THEN /\ queue' = Append(queue, EvTick)
            /\ submitted' = Append(submitted, EvTick)
       ELSE UNCHANGED chanvars
    /\ UNCHANGED <<cpc, has_exit, join_handle, wvars, vmvars, clockvars, memvars, unitvars>>

\* EmulationHandler::tick: send Tick; a send to a closed channel panics.
tick ==
    /\ cpc = "idle" /\ ops < MaxOps
    /\ ops' = ops + 1 /\ last_op' = "tick"
    /\ IF ReceiverAlive
       THEN /\ queue' = Append(queue, EvTick)
            /\ submitted' = Append(submitted, EvTick)
            /\ cpc' = cpc
       ELSE /\ cpc' = "panicked"
            /\ UNCHANGED chanvars
    /\ UNCHANGED <<has_exit, join_handle, wvars, vmvars, clockvars, memvars, unitvars>>

\* EmulationHandler::cycle: send Cycle{ticks, ticks_per_second}.
cycle(ticks, ticks_per_second) ==
    /\ cpc = "idle" /\ ops < MaxOps
    /\ ops' = ops + 1 /\ last_op' = "cycle"
    /\ IF ReceiverAlive
       THEN /\ queue' = Append(queue, EvCycle(ticks, ticks_per_second))
            /\ submitted' = Append(submitted, EvCycle(ticks, ticks_per_second))
            /\ cpc' = cpc
       ELSE /\ cpc' = "panicked"
            /\ UNCHANGED chanvars
    /\ UNCHANGED <<has_exit, join_handle, wvars, vmvars, clockvars, memvars, unitvars>>

\* Mutant of exit(): the has_exit guard is missing.
exit_unguarded(caller) ==
    /\ cpc = "idle" /\ ops < MaxOps
    /\ ops' = ops + 1 /\ last_op' = caller
    /\ has_exit' = TRUE
    /\ IF ReceiverAlive
       THEN /\ queue' = Append(queue, EvExit)
            /\ submitted' = Append(submitted, EvExit)
            /\ join_handle' = "None"
            /\ cpc' = IF join_handle = "Some" THEN "joining" ELSE "panicked"
       ELSE /\ cpc' = "panicked"
            /\ UNCHANGED <<join_handle, chanvars>>
    /\ UNCHANGED <<wvars, vmvars, clockvars, memvars, unitvars>>

\* Mutant of exit(): Exit is sent but the thread is not joined; exit returns
\* at once.
exit_nojoin(caller) ==
    /\ cpc = "idle" /\ ops < MaxOps
    /\ ops' = ops + 1 /\ last_op' = caller
    /\ IF has_exit
       THEN /\ cpc' = IF caller = "drop" THEN "dropped" ELSE "idle"
            /\ UNCHANGED <<has_exit, join_handle, chanvars>>
       ELSE /\ has_exit' = TRUE
            /\ IF ReceiverAlive
               THEN /\ queue' = Append(queue, EvExit)
                    /\ submitted' = Append(submitted, EvExit)
                    /\ join_handle' = "None"
                    /\ cpc' = IF caller = "drop" THEN "dropped" ELSE "idle"
               ELSE /\ cpc' = "panicked"
                    /\ UNCHANGED <<join_handle, chanvars>>
    /\ UNCHANGED <<wvars, vmvars, clockvars, memvars, unitvars>>

\* EmulationHandler::exit up to the join (emu.rs:139-152), called by the
\* controller (caller = "exit") or by Drop::drop (caller = "drop").
exit(caller) ==
    /\ cpc = "idle" /\ ops < MaxOps
    /\ ops' = ops + 1 /\ last_op' = caller
    /\ IF has_exit
       THEN /\ cpc' = IF caller = "drop" THEN "dropped" ELSE "idle"
            /\ UNCHANGED <<has_exit, join_handle, chanvars>>
       ELSE /\ has_exit' = TRUE
            /\ IF ReceiverAlive
               THEN /\ queue' = Append(queue, EvExit)
                    /\ submitted' = Append(submitted, EvExit)
                    /\ join_handle' = "None"
                    /\ cpc' = IF join_handle = "Some" THEN "joining" ELSE "panicked"
               ELSE /\ cpc' = "panicked"
                    /\ UNCHANGED <<join_handle, chanvars>>
    /\ UNCHANGED <<wvars, vmvars, clockvars, memvars, unitvars>>

\* JoinHandle::join returning inside exit (emu.rs:152-153): Ok when the worker
\* returned, Err (and the expect panics) when the worker panicked.
exit_join ==
    /\ cpc = "joining"
    /\ ~ReceiverAlive
    /\ cpc' = IF wpc = "done"
              THEN (IF last_op = "drop" THEN "dropped" ELSE "idle")
              ELSE "panicked"
    /\ UNCHANGED <<has_exit, join_handle, ops, last_op, chanvars, wvars, vmvars,
                   clockvars, memvars, unitvars>>

\* Drop for EmulationHandler: self.exit().
drop == exit("drop")

\* ------------------------------------------------------ the wall clock

\* What SystemTime::now() may return after a reading of `now`.
Readings ==
    {now} \cup {now + d : d \in ClockSteps}
          \cup {now - d : d \in {b \in ClockBackSteps : b <= now /\ ~clock_steady}}

\* SystemTime::now() returns t.
SystemTimeNow(t) ==
    /\ t # now => clock_events < MaxClockEvents
    /\ now' = t
    /\ clock_events' = IF t = now THEN clock_events ELSE clock_events + 1
    /\ clock_steady' = clock_steady

\* ------------------------------------------ the worker thread (start_loop)

\* emu.rs:51-55 and 64-74: receive the next event; Exit leaves main_loop, Tick
\* and Cycle go on; a Cycle sets past_ticks and samples last_tick_time.  recv
\* fails (and the expect panics) on an empty channel whose senders are gone.
Recv ==
    /\ wpc = "recv"
    /\ queue # <<>> \/ SendersDropped
    /\ IF queue = <<>>
       THEN /\ wpc' = "panicked"
            /\ UNCHANGED <<queue, cur, started, cur_calls, loopvars, clockvars>>
       ELSE LET d == Dequeue(queue)
                ev == d.ev
            IN  /\ queue' = d.rest
                /\ started' = Append(started, ev)
                /\ cur' = ev
                /\ cur_calls' = 0
                /\ IF ev.type = "Exit"
                   THEN wpc' = "done" /\ UNCHANGED <<loopvars, clockvars>>
                   ELSE IF ev.type = "Tick"
                   THEN wpc' = "tick_lock" /\ UNCHANGED <<loopvars, clockvars>>
                   ELSE /\ wpc' = "cycle_init"
                        /\ past_ticks' = 0
                        /\ \E t \in Readings :
                              SystemTimeNow(t) /\ last_tick_time' = t /\ cycle_start' = t
                        /\ UNCHANGED <<last_print_time, last_print_ticks, secs_per_tick>>
    /\ UNCHANGED <<ctlvars, submitted, vmvars, memvars, unitvars>>

\* Mutant of the Tick arm: the machine is locked for reading.
TickLockRead ==
    /\ wpc = "tick_lock"
    /\ rwlock \in {"unlocked", "read"}
    /\ rwlock' = "read"
    /\ wpc' = "tick_perform"
    /\ UNCHANGED <<ctlvars, chanvars, cur, started, cur_calls, loopvars, vm, calls,
                   clockvars, memvars, unitvars>>

\* emu.rs:58-60: virtual_machine.write(): blocks until the lock is free; a
\* poisoned lock makes the expect panic.
TickLock ==
    /\ wpc = "tick_lock"
    /\ rwlock \in {"unlocked", "poisoned"}
    /\ IF rwlock = "poisoned"
       THEN wpc' = "panicked" /\ rwlock' = rwlock
       ELSE wpc' = "tick_perform" /\ rwlock' = "write"
    /\ UNCHANGED <<ctlvars, chanvars, cur, started, cur_calls, loopvars, vm, calls,
                   clockvars, memvars, unitvars>>

\* emu.rs:61-62: perform_tick() under the guard; an Err makes the expect panic,
\* which poisons the lock as the guard is dropped.
TickPerform ==
    /\ wpc = "tick_perform"
    /\ LET r == PerformTick(vm)
       IN  /\ vm' = r.vm
           /\ calls' = calls + 1
           /\ cur_calls' = cur_calls + 1
           /\ IF r.ok
              THEN wpc' = "tick_unlock" /\ rwlock' = rwlock
              ELSE wpc' = "panicked" /\ rwlock' = "poisoned"
    /\ UNCHANGED <<ctlvars, chanvars, cur, started, loopvars, clockvars, memvars, unitvars>>

\* emu.rs:62-63: the guard is dropped at the end of the statement.
TickUnlock ==
    /\ wpc = "tick_unlock"
    /\ rwlock' = "unlocked"
    /\ wpc' = "recv"
    /\ UNCHANGED <<ctlvars, chanvars, cur, started, cur_calls, loopvars, vm, calls,
                   clockvars, memvars, unitvars>>

\* emu.rs:75-77: the second clock sample, last_print_ticks and secs_per_tick.
CycleInit ==
    /\ wpc = "cycle_init"
    /\ \E t \in Readings : SystemTimeNow(t) /\ last_print_time' = t
    /\ last_print_ticks' = 0
    /\ secs_per_tick' = SecsPerTick(cur.ticks_per_second)
    /\ wpc' = "cycle_loop"
    /\ UNCHANGED <<ctlvars, chanvars, cur, started, cur_calls, past_ticks,
                   last_tick_time, cycle_start, vmvars, memvars, unitvars>>

\* emu.rs:79-110 and 128-131: one pass of the while loop up to the tick.  The
\* loop ends when past_ticks reaches ticks.  Otherwise the clock is sampled;
\* duration_since fails (and the closure panics) when the sample is earlier than
\* last_tick_time or last_print_time; the report is made when due; the tick is
\* started when due.
CyclePoll ==
    /\ wpc = "cycle_loop"
    /\ IF ~CycleContinue(past_ticks, cur.ticks)
       THEN /\ wpc' = "recv"
            /\ past_ticks' = 0
            /\ last_tick_time' = 0
            /\ cycle_start' = 0
            /\ last_print_time' = 0
            /\ last_print_ticks' = 0
            /\ secs_per_tick' = NoInterval
            /\ UNCHANGED clockvars
       ELSE \E current_time \in Readings :
            /\ SystemTimeNow(current_time)
            /\ IF current_time < last_tick_time \/ current_time < last_print_time
               THEN wpc' = "panicked" /\ UNCHANGED loopvars
               ELSE LET elapsed_time == current_time - last_tick_time
                        elapsed_print == current_time - last_print_time
                    IN  /\ IF elapsed_print > PrintIntervalMs
                           THEN /\ last_print_time' = current_time
                                /\ last_print_ticks' = past_ticks
                           ELSE UNCHANGED <<last_print_time, last_print_ticks>>
                        /\ IF TickIsDue(elapsed_time, secs_per_tick)
                           THEN /\ last_tick_time' = current_time
                                /\ wpc' = "cycle_lock"
                           ELSE UNCHANGED <<last_tick_time, wpc>>
                        /\ UNCHANGED <<past_ticks, secs_per_tick, cycle_start>>
    /\ UNCHANGED <<ctlvars, chanvars, cur, started, cur_calls, vmvars, memvars, unitvars>>

\* emu.rs:113-115: virtual_machine.write() inside the cycle.
CycleLock ==
    /\ wpc = "cycle_lock"
    /\ rwlock \in {"unlocked", "poisoned"}
    /\ IF rwlock = "poisoned"
       THEN wpc' = "panicked" /\ rwlock' = rwlock
       ELSE wpc' = "cycle_perform" /\ rwlock' = "write"
    /\ UNCHANGED <<ctlvars, chanvars, cur, started, cur_calls, loopvars, vm, calls,
                   clockvars, memvars, unitvars>>

\* emu.rs:116-117: perform_tick() under the guard.
CyclePerform ==
    /\ wpc = "cycle_perform"
    /\ LET r == PerformTick(vm)
       IN  /\ vm' = r.vm
           /\ calls' = calls + 1
           /\ cur_calls' = cur_calls + 1
           /\ IF r.ok
              THEN wpc' = "cycle_unlock" /\ rwlock' = rwlock
              ELSE wpc' = "panicked" /\ rwlock' = "poisoned"
    /\ UNCHANGED <<ctlvars, chanvars, cur, started, loopvars, clockvars, memvars, unitvars>>

\* emu.rs:117-126: the guard is dropped, past_ticks is incremented, and the
\* worker sleeps 1 ms when the interval exceeds 10 ms.
CycleUnlock ==
    /\ wpc = "cycle_unlock"
    /\ rwlock' = "unlocked"
    /\ past_ticks' = past_ticks + 1
    /\ wpc' = IF ShouldSleep(secs_per_tick) THEN "cycle_sleep" ELSE "cycle_loop"
    /\ UNCHANGED <<ctlvars, chanvars, cur, started, cur_calls, last_tick_time, cycle_start,
                   last_print_time, last_print_ticks, secs_per_tick, vm, calls,
                   clockvars, memvars, unitvars>>

\* emu.rs:125: thread::sleep returns.
CycleWake ==
    /\ wpc = "cycle_sleep"
    /\ wpc' = "cycle_loop"
    /\ UNCHANGED <<ctlvars, chanvars, cur, started, cur_calls, loopvars, vmvars,
                   clockvars, memvars, unitvars>>

\* The closure of start_loop: whichever step the worker is at.
start_loop ==
    \/ Recv
    \/ TickLock
    \/ TickPerform
    \/ TickUnlock
    \/ CycleInit
    \/ CyclePoll
    \/ CycleLock
    \/ CyclePerform
    \/ CycleUnlock
    \/ CycleWake

\* ------------------------------------------------- the scheduler's runs

\* The banks that stand alone play no part in the scheduler.
MemIdle ==
    /\ ram = RamNew(0, 0)
    /\ rom = RomNew(0, 0)
    /\ mem_last = [op |-> "new"]
    /\ mem_prev = [op |-> "new"]

\* The ALU and a machine that stand alone play no part in the scheduler.
UnitIdle ==
    /\ alu_a = 0
    /\ alu_b = 0
    /\ alu_op = "none"
    /\ alu_out = [kind |-> "none"]
    /\ vm_last = [op |-> "new"]
    /\ vm_ticks = 0

\* EmulationHandler::new (emu.rs:28-41): the handler's fields, the channel and
\* the worker at its first recv.
HandlerInit ==
    /\ cpc = "idle"
    /\ has_exit = FALSE
    /\ join_handle = "Some"
    /\ ops = 0
    /\ last_op = "new"
    /\ queue = <<>>
    /\ submitted = <<>>
    /\ wpc = "recv"
    /\ cur = NoEvent
    /\ started = <<>>
    /\ cur_calls = 0
    /\ past_ticks = 0
    /\ last_tick_time = 0
    /\ cycle_start = 0
    /\ last_print_time = 0
    /\ last_print_ticks = 0
    /\ secs_per_tick = NoInterval
    /\ rwlock = "unlocked"
    /\ calls = 0
    /\ now = 0
    /\ clock_events = 0

\* EmulationHandler::new on a freshly constructed machine.
SchedInit == HandlerInit /\ vm = VmNew(MaxSize, MaxSize)

\* SystemTime is the wall clock: it may be set back at any time.
Init == SchedInit /\ MemIdle /\ UnitIdle /\ clock_steady = FALSE

Controller ==
    \/ tick
    \/ \E n \in 0 .. MaxTicks, r \in Rates : cycle(n, r)
    \/ exit("exit")
    \/ exit_join
    \/ drop

Next ==
    \/ Controller
    \/ start_loop

Spec == Init /\ [][Next]_vars

\* The worker is scheduled again and again, a join returns once the thread has
\* ended, and a worker that keeps reading the clock sees it move on.
ClockProgress == start_loop /\ now' > now

\* Runs in which nobody sets the wall clock back.
FairInit == SchedInit /\ MemIdle /\ UnitIdle /\ clock_steady = TRUE

FairSpec ==
    /\ FairInit
    /\ [][Next]_vars
    /\ WF_vars(start_loop)
    /\ WF_vars(exit_join)
    /\ WF_vars(ClockProgress)

\* ------------------------------------------- the memory banks on their own

\* Ram::set_byte on the bank.
RamSetByte(address, value) ==
    /\ LET r == SetByte(ram, address, value)
       IN  /\ ram' = r.mem
           /\ mem_last' = [op |-> "set_byte", address |-> address, value |-> value,
                           ret |-> r.ret]
    /\ mem_prev' = mem_last
    /\ UNCHANGED <<rom, schedvars, unitvars>>

\* Ram::byte on the bank.
RamByte(address) ==
    /\ mem_last' = [op |-> "byte", bank |-> "ram", address |-> address,
                    ret |-> Byte(ram, address)]
    /\ mem_prev' = mem_last
    /\ UNCHANGED <<ram, rom, schedvars, unitvars>>

\* Rom::byte on the bank.
RomByte(address) ==
    /\ mem_last' = [op |-> "byte", bank |-> "rom", address |-> address,
                    ret |-> Byte(rom, address)]
    /\ mem_prev' = mem_last
    /\ UNCHANGED <<ram, rom, schedvars, unitvars>>

\* Ram::new and Rom::new with any capacity and fill byte.
MemInit ==
    /\ SchedInit
    /\ UnitIdle
    /\ clock_steady = FALSE
    /\ \E n \in 0 .. MaxSize, d \in ByteVals : ram = RamNew(d, n)
    /\ \E n \in 0 .. MaxSize, d \in ByteVals : rom = RomNew(d, n)
    /\ mem_last = [op |-> "new"]
    /\ mem_prev = [op |-> "new"]

MemNext ==
    \/ \E a \in Addrs, v \in ByteVals : RamSetByte(a, v)
    \/ \E a \in Addrs : RamByte(a)
    \/ \E a \in Addrs : RomByte(a)

MemSpec == MemInit /\ [][MemNext]_vars

\* ------------------------------------ the scheduler on a faulting machine

\* The faults the design requires perform_tick to report: the opcode fetch (at
\* address 0 on a machine that has not ticked) is out of the ROM's bounds, or
\* the byte fetched is no opcode.  The sources' perform_tick reports neither.
TickFaults(m) ==
    \/ ~Byte(m.rom, 0).some
    \/ Byte(m.rom, 0).val > OpStB8

\* perform_tick as the design requires it to fail: an Err that leaves the
\* machine as it was; otherwise what the sources' perform_tick does.
PerformTickFaulting(m) ==
    IF TickFaults(m) THEN [ok |-> FALSE, vm |-> m] ELSE PerformTick(m)

\* emu.rs:61-62 with a perform_tick that can fail: an Err makes the expect
\* panic, which ends the worker and poisons the lock as the guard is dropped.
TickPerformFaulting ==
    /\ wpc = "tick_perform"
    /\ LET r == PerformTickFaulting(vm)
       IN  /\ vm' = r.vm
           /\ calls' = calls + 1
           /\ cur_calls' = cur_calls + 1
           /\ IF r.ok
              THEN wpc' = "tick_unlock" /\ rwlock' = rwlock
              ELSE wpc' = "panicked" /\ rwlock' = "poisoned"
    /\ UNCHANGED <<ctlvars, chanvars, cur, started, loopvars, clockvars, memvars, unitvars>>

\* emu.rs:116-117 with a perform_tick that can fail.
CyclePerformFaulting ==
    /\ wpc = "cycle_perform"
    /\ LET r == PerformTickFaulting(vm)
       IN  /\ vm' = r.vm
           /\ calls' = calls + 1
           /\ cur_calls' = cur_calls + 1
           /\ IF r.ok
              THEN wpc' = "cycle_unlock" /\ rwlock' = rwlock
              ELSE wpc' = "panicked" /\ rwlock' = "poisoned"
    /\ UNCHANGED <<ctlvars, chanvars, cur, started, loopvars, clockvars, memvars, unitvars>>

\* The closure of start_loop around the faulting perform_tick.
start_loop_faulting ==
    \/ Recv
    \/ TickLock
    \/ TickPerformFaulting
    \/ TickUnlock
    \/ CycleInit
    \/ CyclePoll
    \/ CycleLock
    \/ CyclePerformFaulting
    \/ CycleUnlock
    \/ CycleWake

\* EmulationHandler::new on a machine without ROM, on a machine whose ROM
\* starts with a byte that is no opcode, and on a machine whose ROM is a nop.
FaultInit ==
    /\ HandlerInit
    /\ \/ vm = VmNew(0, MaxSize)
       \/ vm = VmNew(1, MaxSize)
       \/ \E image \in FaultImages : vm = LoadRom(VmNew(1, MaxSize), image)
    /\ MemIdle
    /\ UnitIdle
    /\ clock_steady = FALSE

FaultNext ==
    \/ Controller
    \/ start_loop_faulting

FaultSpec == FaultInit /\ [][FaultNext]_vars

\* --------------------------------------- the virtual machine on its own

\* VirtualMachine::perform_tick called directly on the machine.
VmPerformTick ==
    /\ vm_ticks < MaxVmTicks
    /\ LET r == PerformTick(vm)
       IN  /\ vm' = r.vm
           /\ vm_last' = [op |-> "perform_tick", ok |-> r.ok, before |-> vm]
    /\ vm_ticks' = vm_ticks + 1
    /\ UNCHANGED <<ctlvars, chanvars, wvars, rwlock, calls, clockvars, memvars, aluvars>>

\* VirtualMachine::reg_a, reg_b, last_alu and rom().byte / ram().byte: each
\* returns a snapshot and changes nothing.
VmRegA ==
    /\ vm_last' = [op |-> "reg_a", ret |-> vm.reg_a]
    /\ UNCHANGED <<schedvars, memvars, aluvars, vm_ticks>>

VmRegB ==
    /\ vm_last' = [op |-> "reg_b", ret |-> vm.reg_b]
    /\ UNCHANGED <<schedvars, memvars, aluvars, vm_ticks>>

VmLastAlu ==
    /\ vm_last' = [op |-> "last_alu", ret |-> vm.last_alu]
    /\ UNCHANGED <<schedvars, memvars, aluvars, vm_ticks>>

VmRomByte(address) ==
    /\ vm_last' = [op |-> "rom_byte", address |-> address, ret |-> Byte(vm.rom, address)]
    /\ UNCHANGED <<schedvars, memvars, aluvars, vm_ticks>>

VmRamByte(address) ==
    /\ vm_last' = [op |-> "ram_byte", address |-> address, ret |-> Byte(vm.ram, address)]
    /\ UNCHANGED <<schedvars, memvars, aluvars, vm_ticks>>

\* A machine used on its own: no handler is running on it.
VmIdle == HandlerInit /\ clock_steady = FALSE /\ MemIdle /\ UnitIdle

\* CJEmuVirtualMachine::new with any ROM and RAM size.
VmInit ==
    /\ VmIdle
    /\ \E rom_size \in 0 .. MaxSize, ram_size \in 0 .. MaxSize :
           vm = VmNew(rom_size, ram_size)

VmNext ==
    \/ VmPerformTick
    \/ VmRegA
    \/ VmRegB
    \/ VmLastAlu
    \/ \E a \in Addrs : VmRomByte(a)
    \/ \E a \in Addrs : VmRamByte(a)

VmSpec == VmInit /\ [][VmNext]_vars

\* ------------------------------- the virtual machine with a program in ROM

\* CJEmuVirtualMachine::new followed by the load of a program image.
VmRomInit ==
    /\ VmIdle
    /\ \E rom_size \in 0 .. (MaxSize + 1), ram_size \in 0 .. MaxSize, image \in RomImages :
           vm = LoadRom(VmNew(rom_size, ram_size), image)

VmRomSpec == VmRomInit /\ [][VmNext]_vars

\* ---------------------------------------------------- the ALU on its own

\* CJEmuAlu.add16(a, b)
AluAdd16 ==
    /\ alu_op' = "add16"
    /\ alu_out' = Returned(Add16(alu_a, alu_b))
    /\ UNCHANGED <<schedvars, memvars, alu_a, alu_b, vm_last, vm_ticks>>

\* CJEmuAlu.complement(a)
AluComplement ==
    /\ alu_op' = "complement"
    /\ alu_out' = Complement(alu_a)
    /\ UNCHANGED <<schedvars, memvars, alu_a, alu_b, vm_last, vm_ticks>>

\* Every other operation of CJEmuAlu: the call panics.
AluTodo(op) ==
    /\ alu_op' = op
    /\ alu_out' = Todo
    /\ UNCHANGED <<schedvars, memvars, alu_a, alu_b, vm_last, vm_ticks>>

\* The operands of the calls: any two u16 values.
AluInit ==
    /\ SchedInit
    /\ clock_steady = FALSE
    /\ MemIdle
    /\ alu_a \in U16Samples
    /\ alu_b \in U16Samples
    /\ alu_op = "none"
    /\ alu_out = [kind |-> "none"]
    /\ vm_last = [op |-> "new"]
    /\ vm_ticks = 0

AluNext ==
    \/ AluAdd16
    \/ AluComplement
    \/ \E op \in TodoOps : AluTodo(op)

AluSpec == AluInit /\ [][AluNext]_vars

\* ------------------------------------------------------------ properties

CyclePcs == {"cycle_init", "cycle_loop", "cycle_lock", "cycle_perform",
             "cycle_unlock", "cycle_sleep"}

\* C1: the events the worker has received so far, followed by the events still
\* in the channel, are exactly the events the controller sent, in the order it
\* sent them: nothing is skipped, duplicated or reordered.
FifoOrder == submitted = started \o queue

\* Two different events were sent and the worker received both.
FifoOrderWitness ==
    /\ Len(started) = 2
    /\ started[1] # started[2]

\* C2: while the worker handles a Tick it calls perform_tick() exactly once (no
\* call before the lock is taken, one call once the guard is dropped), and it
\* holds the write lock from before the call until after it.
TickOnceUnderWriteLock ==
    cur.type = "Tick" =>
        /\ wpc = "tick_lock" => cur_calls = 0
        /\ wpc = "tick_perform" => cur_calls = 0 /\ rwlock = "write"
        /\ wpc = "tick_unlock" => cur_calls = 1 /\ rwlock = "write"
        /\ wpc \notin {"tick_lock", "tick_perform", "tick_unlock"} => cur_calls = 1

\* A Tick has been carried out and the worker is back at recv.
TickOnceWitness ==
    /\ cur.type = "Tick"
    /\ wpc = "recv"
    /\ calls = 1

\* C3: a Cycle never makes more than `ticks` calls of perform_tick(), each call
\* is made under the write lock, and when the Cycle has completed (the worker is
\* back at recv) it has made exactly `ticks` calls.
CycleExactTicks ==
    cur.type = "Cycle" =>
        /\ cur_calls <= cur.ticks
        /\ wpc \in {"cycle_perform", "cycle_unlock"} => rwlock = "write"
        /\ wpc \in {"recv", "done"} => cur_calls = cur.ticks

\* A Cycle of two or more ticks has completed.
CycleExactWitness ==
    /\ cur.type = "Cycle"
    /\ cur.ticks >= 2
    /\ wpc = "recv"
    /\ cur_calls = cur.ticks

\* C4: as long as the Cycle the worker is running has ticks left to perform, no
\* step receives another event, removes one from the channel or takes the
\* worker out of the Cycle (other than a panic of the worker).
CycleNotPreempted ==
    [][(cur.type = "Cycle" /\ cur_calls < cur.ticks) =>
           /\ started' = started
           /\ cur' = cur
           /\ Len(queue') >= Len(queue)
           /\ SubSeq(queue', 1, Len(queue)) = queue
           /\ wpc' \in CyclePcs \cup {"panicked"}]_vars

\* An Exit waits in the channel while a Cycle is between its ticks.
CycleNotPreemptedWitness ==
    /\ cur.type = "Cycle"
    /\ cur_calls >= 1
    /\ cur_calls < cur.ticks
    /\ wpc \in CyclePcs
    /\ queue # <<>>
    /\ Head(queue) = EvExit

\* C5: once exit() has returned, another exit() or the drop of the handler
\* sends nothing, joins nothing, does not panic and leaves the handler's
\* fields, the worker and the machine as they were.
ExitIdempotent ==
    [][(has_exit /\ cpc = "idle" /\ ops' # ops /\ last_op' \in {"exit", "drop"}) =>
           /\ cpc' = (IF last_op' = "drop" THEN "dropped" ELSE "idle")
           /\ UNCHANGED <<has_exit, join_handle, chanvars, wvars, vmvars, clockvars>>]_vars

\* exit() was called twice, both calls returned and one Exit was sent.
ExitIdempotentWitness ==
    /\ has_exit
    /\ cpc = "idle"
    /\ last_op = "exit"
    /\ ops = 2
    /\ submitted = <<EvExit>>
    /\ wpc = "done"

\* Some wait makes a tick of the running Cycle due, but the readings that may
\* differ from the one before are used up.
ClockStarved ==
    /\ clock_events = MaxClockEvents
    /\ wpc \in CyclePcs
    /\ \E e \in 0 .. (MsPerSec + 1) : TickIsDue(e, SecsPerTick(cur.ticks_per_second))

\* C6: a drop of the handler that sent Exit and waits for the join eventually
\* returns, whatever was sent before it, as long as the worker keeps running
\* and the clock keeps moving forwards.
DropAlwaysReturns ==
    (last_op = "drop" /\ cpc = "joining") ~> (cpc = "dropped" \/ ClockStarved)

\* C7: a worker that has stopped has stopped by receiving Exit.
WorkerStopsOnlyOnExit ==
    wpc \in {"done", "panicked"} => (wpc = "done" /\ cur = EvExit)

\* C8: a step of the controller (a call of tick, cycle, exit or drop, or the
\* return of the join) changes neither the machine nor the number of
\* perform_tick() calls nor the lock; the machine and that number change only in
\* a perform step of the worker, taken with the write lock held.
OnlyWorkerMutates ==
    [][/\ (ops' # ops \/ cpc' # cpc) =>
              (vm' = vm /\ calls' = calls /\ rwlock' = rwlock)
       /\ (vm' # vm \/ calls' # calls) =>
              /\ rwlock = "write"
              /\ wpc \in {"tick_perform", "cycle_perform"}
              /\ wpc' # wpc
              /\ UNCHANGED ctlvars]_vars

\* The controller has sent two events and the worker has ticked the machine.
OnlyWorkerMutatesWitness ==
    /\ ops = 2
    /\ last_op \in {"tick", "cycle"}
    /\ calls >= 1
    /\ rwlock = "write"

\* C9: set_byte on the RAM bank succeeds exactly when the address is below the
\* capacity, byte fails exactly when it is not, and a byte(a) that follows a
\* successful set_byte(a, v) returns v.
RamRoundTrip ==
    /\ mem_last.op = "set_byte" =>
           (mem_last.ret = Some("unit") <=> mem_last.address < Size(ram))
    /\ mem_last.op = "set_byte" =>
           (mem_last.ret = None <=> mem_last.address >= Size(ram))
    /\ (mem_last.op = "byte" /\ mem_last.bank = "ram") =>
           (mem_last.ret = None <=> mem_last.address >= Size(ram))
    /\ (/\ mem_last.op = "byte" /\ mem_last.bank = "ram"
        /\ mem_prev.op = "set_byte"
        /\ mem_prev.address = mem_last.address
        /\ mem_last.address < Size(ram)) =>
           (mem_prev.ret = Some("unit") /\ mem_last.ret = Some(mem_prev.value))

\* byte(a) has returned the value that the set_byte(a, v) before it stored, a
\* value other than the one the bank was filled with.
RamRoundTripWitness ==
    /\ mem_last.op = "byte"
    /\ mem_last.bank = "ram"
    /\ mem_prev.op = "set_byte"
    /\ mem_prev.address = mem_last.address
    /\ mem_last.address = Size(ram) - 1
    /\ mem_last.ret = Some(255)
    /\ \E i \in 1 .. Size(ram) : ram.data[i] # 255

\* C10: a set_byte keeps the capacity of the RAM bank and leaves the ROM bank
\* alone; when it fails the RAM bank is unchanged, and when it succeeds only the
\* byte at its address changes.
SetByteFrame ==
    [][mem_last'.op = "set_byte" =>
           /\ Size(ram') = Size(ram)
           /\ DOMAIN ram'.data = DOMAIN ram.data
           /\ rom' = rom
           /\ IF mem_last'.ret = None
              THEN ram' = ram
              ELSE /\ Byte(ram', mem_last'.address) = Some(mem_last'.value)
                   /\ \A a \in Addrs :
                          a # mem_last'.address => Byte(ram', a) = Byte(ram, a)]_vars

\* A set_byte beyond the capacity has failed on a bank that holds bytes.
SetByteFrameWitness ==
    /\ mem_last.op = "set_byte"
    /\ mem_last.ret = None
    /\ Size(ram) = MaxSize
    /\ mem_prev.op = "set_byte"
    /\ mem_prev.ret = Some("unit")
    /\ mem_prev.value # 0


\* C11: a perform_tick() whose opcode fetch address is at or beyond the ROM size
\* (on a machine built with ROM size 0 every fetch address is) returns an error,
\* and registers A and B, the last ALU outputs and memory are as before the call.
\* The machine is indeed left as it was, but the call reports success.
TickFaultLeavesMachine ==
    (vm_last.op = "perform_tick" /\ Size(vm_last.before.rom) = 0)
        => (~vm_last.ok /\ vm = vm_last.before)


\* C12: perform_tick() executes the instruction in ROM: with ROM holding the
\* lda16 opcode followed by two operand bytes, the first perform_tick() succeeds
\* and leaves the 16-bit operand (low byte first) in register A.
LoadA16Executes ==
    (/\ vm_last.op = "perform_tick"
     /\ vm_ticks = 1
     /\ Byte(vm_last.before.rom, 0) = Some(OpLdA16)
     /\ Byte(vm_last.before.rom, 2).some)
        => (/\ vm_last.ok
            /\ vm.reg_a = Byte(vm_last.before.rom, 1).val
                           + 256 * Byte(vm_last.before.rom, 2).val)


\* C13: for all 16-bit a and b, add16(a, b).value is (a + b) mod 65536 and
\* add16(a, b).overflow is true exactly when a + b > 65535.
Add16Wraps ==
    alu_op = "add16"
        => (/\ alu_out.kind = "ok"
            /\ alu_out.out.value = (alu_a + alu_b) % (U16Max + 1)
            /\ alu_out.out.overflow <=> (alu_a + alu_b > U16Max))


\* C14: add16 is commutative: add16(a, b) and add16(b, a) return the same value
\* and the same flags, whether the sum wraps or not.
Add16Commutes ==
    alu_op = "add16" => alu_out = Returned(Add16(alu_b, alu_a))

\* add16 was called on two different operands whose sum does not fit in 16 bits.
Add16CommutesWitness ==
    /\ alu_op = "add16"
    /\ alu_a # alu_b
    /\ alu_a + alu_b > U16Max
    /\ alu_out.kind = "ok"
    /\ alu_out.out.overflow

LastAluConsistent ==
    vm_last.op = "last_alu" => (vm_last.ret.zero <=> (vm_last.ret.value = 0))

\* C17: add16(a, b).carry_out is true exactly when the unsigned sum a + b needs
\* a 17th bit (a + b > 65535).
Add16CarryOut ==
    alu_op = "add16"
        => (/\ alu_out.kind = "ok"
            /\ alu_out.out.carry_out <=> (alu_a + alu_b > U16Max))

\* C18: complement is an involution: complement(a) returns, and complement of
\* the value it returned returns a.
ComplementInvolution ==
    alu_op = "complement"
        => (/\ alu_out.kind = "ok"
            /\ Complement(alu_out.out.value).kind = "ok"
            /\ Complement(alu_out.out.value).out.value = alu_a)


\* C19: during a Cycle, a poll that samples a time at which the elapsed time
\* since the previous tick has reached the interval 1/ticks_per_second
\* (elapsed >= interval, equality included) starts a tick and sets the
\* previous-tick timestamp to the sampled time, a poll with elapsed < interval
\* starts none, and the tick once performed raises the completed count by one.
\* A poll is a worker step taken at the head of the loop with ticks still to
\* do; the time it samples is the clock's value after the step.
TickWhenIntervalReached ==
    [][ /\ (/\ wpc = "cycle_loop"
            /\ CycleContinue(past_ticks, cur.ticks)
            /\ UNCHANGED <<ctlvars, chanvars>>
            /\ now' >= last_tick_time)
           => LET rate == cur.ticks_per_second
                  elapsed == now' - last_tick_time
                  reached == IF rate = 0 THEN FALSE
                             ELSE IF rate < 0 THEN TRUE
                             ELSE elapsed * rate >= MsPerSec
              IN  IF reached
                  THEN wpc' = "cycle_lock" /\ last_tick_time' = now'
                  ELSE wpc' = "cycle_loop" /\ last_tick_time' = last_tick_time
        /\ (wpc = "cycle_unlock" /\ wpc' # wpc) => past_ticks' = past_ticks + 1
      ]_vars


\* C20: during a Cycle whose interval 1/ticks_per_second exceeds 10 ms the
\* worker sleeps between every two consecutive polls of the clock: a poll, or
\* the end of a tick, never leaves the worker back at the head of the loop with
\* ticks still to do (where its next step is a poll) without a sleep; and
\* during a Cycle whose interval is at or below 10 ms the worker never sleeps.
SleepBetweenPolls ==
    [][ (wpc \in CyclePcs /\ UNCHANGED <<ctlvars, chanvars>>)
           => LET rate == cur.ticks_per_second
                  long == rate = 0 \/ (rate > 0 /\ MsPerSec > SleepThresholdMs * rate)
              IN  IF long
                  THEN (wpc \in {"cycle_loop", "cycle_unlock"} /\ wpc' = "cycle_loop")
                           => ~CycleContinue(past_ticks', cur.ticks)
                  ELSE wpc' # "cycle_sleep"
      ]_vars


CycleEventuallyCompletes ==
    (cur.type = "Cycle" /\ wpc \in CyclePcs) ~> (wpc = "recv" \/ ClockStarved)


\* C23: tick conservation.  At every moment the number of perform_tick() calls
\* made so far is at most the number asked for by the commands sent so far (1
\* per Tick, `ticks` per Cycle); and once exit() has returned, it is exactly
\* the number asked for by all the commands sent before the Exit.
TickConservation ==
    /\ calls <= Requested(submitted)
    /\ (has_exit /\ cpc \in {"idle", "dropped"})
          => (/\ wpc = "done"
              /\ queue = <<>>
              /\ calls = Requested(submitted))

\* exit() has returned after a Cycle of two ticks was sent before it.
TickConservationWitness ==
    /\ has_exit
    /\ cpc = "idle"
    /\ Len(submitted) = 2
    /\ submitted[1].type = "Cycle"
    /\ submitted[1].ticks = 2
    /\ calls = 2


\* C24: within one Cycle with a positive rate, measured in the clock readings
\* the worker samples: the first tick is sampled strictly later than one
\* interval 1/ticks_per_second after the reading the Cycle began with, the
\* samples of two consecutive ticks differ by strictly more than the interval,
\* hence after k ticks strictly more than k intervals have passed since the
\* Cycle began, and a Cycle of N ticks completes no earlier than N intervals
\* after it began.
TicksKeepInterval ==
    /\ [](  (cur.type = "Cycle" /\ cur.ticks_per_second > 0 /\ wpc \in CyclePcs)
              => LET sampled == past_ticks
                                + (IF wpc \in {"cycle_lock", "cycle_perform", "cycle_unlock"}
                                   THEN 1 ELSE 0)
                 IN  IF sampled = 0
                     THEN last_tick_time = cycle_start
                     ELSE (last_tick_time - cycle_start) * cur.ticks_per_second
                              > sampled * MsPerSec  )
    /\ [][ (cur.type = "Cycle" /\ cur.ticks_per_second > 0 /\ wpc = "cycle_loop")
             => /\ wpc' = "cycle_lock"
                    => (/\ last_tick_time' = now'
                        /\ (last_tick_time' - last_tick_time) * cur.ticks_per_second
                               > MsPerSec)
                /\ (wpc' = "recv" /\ cur.ticks > 0)
                    => (now - cycle_start) * cur.ticks_per_second
                           > cur.ticks * MsPerSec
       ]_vars

\* The second tick of a Cycle with a positive rate has been sampled and made.
TicksKeepIntervalWitness ==
    /\ cur.type = "Cycle"
    /\ cur.ticks_per_second > 0
    /\ wpc = "cycle_unlock"
    /\ past_ticks = 1
    /\ cur_calls = 2
    /\ last_tick_time > cycle_start


\* C25: once exit() has returned, the worker has terminated and stays so, the
\* machine and the number of perform_tick() calls never change again, and a
\* later tick() or cycle() call fails in the controller (it panics on the send)
\* without putting anything into the channel.
NothingRunsAfterExit ==
    /\ []((has_exit /\ cpc \in {"idle", "dropped"}) => wpc = "done")
    /\ [][ (has_exit /\ cpc = "idle")
             => /\ wpc' = "done"
                /\ vm' = vm
                /\ calls' = calls
                /\ chanvars' = chanvars
                /\ (ops' # ops /\ last_op' \in {"tick", "cycle"}) => cpc' = "panicked"
       ]_vars

\* exit() returned and the tick() called after it panicked.
NothingRunsAfterExitWitness ==
    /\ has_exit
    /\ wpc = "done"
    /\ ops = 2
    /\ last_op = "tick"
    /\ cpc = "panicked"
    /\ submitted = <<EvExit>>

====
